---- MODULE Spec2Model ----
(***************************************************************************)
(* Dealer scheme catalogue, offer resolution, sale settlement and the      *)
(* approval workflow of cw_dns, as a state machine over the database rows. *)
(*                                                                         *)
(* The repository keeps the same entities under two generations of names:  *)
(* database_setup.py / billing_system_mock.py say deals and                *)
(* deal_product_offers (payout_value), app.py / sample_data.py say schemes *)
(* and scheme_products (payout_amount).  The model keeps one table per     *)
(* entity with the union of the columns; a column that a writer does not   *)
(* set holds NULL (or the falsy value, for a flag).  The two generations    *)
(* also keep two database files; the variable database says which file the *)
(* tables of a run are in, and every operation runs on the file its         *)
(* connect_db() opens.                                                      *)
(*                                                                         *)
(* Money is exact: totals are integers in hundredths of a currency unit,   *)
(* the GST total in ten-thousandths, and a per-unit column holds the pair  *)
(* [total, per] of the division total / per that the code evaluates in     *)
(* floating point.                                                         *)
(***************************************************************************)
EXTENDS Integers, Sequences, FiniteSets, TLC

VARIABLES database, products, schemes, offers, approvals, sales, dealers,
          targets, calls, rules, result

vars == <<database, products, schemes, offers, approvals, sales, dealers,
          targets, calls, rules, result>>

----------------------------------------------------------------------------
(* Bounds of the model *)

\* Offer rows add_deal_product_offer may insert.
MaxOffers == 3

\* Sales a run settles.
MaxSales == 1

\* Approval requests a run submits.
MaxApprovals == 2

\* Largest quantity sold in one sale.
MaxQuantity == 3

\* Rounds of the sample sales loop of add_sample_data (the code runs 10).
SampleSaleRounds == 1

\* Latest upload time at which a run still resets the sample data.
MaxTime == 2

\* Largest scheme id in use at which a run still resets the sample data.
MaxSchemeId == 3

\* Product rows add_product may insert in a run of the catalogue alone.
MaxProducts == 3

----------------------------------------------------------------------------
(* Values *)

\* SQL NULL of a nullable column: the empty tuple; a present value v is <<v>>.
NULL == <<>>

Some(v) == <<v>>

\* NULL in a text column whose other values are strings.
NullText == "NULL"

\* billing_system_mock.py:116, the price used when the product has none.
FallbackDP == 10000

\* sample_data.py:12, the number of sample dealers.
SampleDealers == 5

\* billing_system_mock.py:126, the divisor of a percentage payout; totals are
\* kept in hundredths so that the division is exact.
Hundred == 100

\* billing_system_mock.py:139, the GST rate 0.18 in percent.
GstPercent == 18

\* Calendar dates <<year, month, day>>.  Days 9 and 10 sit on the two sides of
\* a digit-count change, 5-31 and 6-01 on the two sides of a month end.
Dates == {<<2025, 5, 9>>, <<2025, 5, 10>>, <<2025, 5, 31>>, <<2025, 6, 1>>}

\* Calendar order.
DateLE(a, b) ==
    \/ a[1] < b[1]
    \/ (a[1] = b[1] /\ a[2] < b[2])
    \/ (a[1] = b[1] /\ a[2] = b[2] /\ a[3] <= b[3])

\* date.isoformat(), which sqlite3 binds for a datetime.date parameter, and the
\* text DATE() returns for a valid date: 'YYYY-MM-DD', zero padded.  The text is
\* the sequence of its digits (the dashes sit at fixed places).
isoformat(d) ==
    <<d[1] \div 1000, (d[1] \div 100) % 10, (d[1] \div 10) % 10, d[1] % 10,
      d[2] \div 10, d[2] % 10, d[3] \div 10, d[3] % 10>>

\* SQL DATE(column): NULL for NULL or for text that is no date.
SqlDATE(col) == IF col = NULL THEN NULL ELSE isoformat(col)

\* SQL text comparison a <= b (memcmp order) of two texts of digits.
TextLE(a, b) ==
    \/ a = b
    \/ \E i \in 1..Len(a) :
          /\ i <= Len(b)
          /\ \A j \in 1..(i - 1) : a[j] = b[j]
          /\ a[i] < b[i]

\* A comparison that leaves the boundary out: a < b.
SqlLT(a, b) == a # NULL /\ b # NULL /\ a # b /\ TextLE(a, b)

\* SQL a <= b: not true when either side is NULL.
SqlLE(a, b) == a # NULL /\ b # NULL /\ TextLE(a, b)

Max(S) == CHOOSE x \in S : \A y \in S : y <= x

\* CURRENT_TIMESTAMP at an insert, to the second: the clock never runs
\* backwards, so a new row carries the latest stamp so far or a later one.
LatestStamp == IF Len(schemes) = 0 THEN 0
               ELSE Max({schemes[s].upload_timestamp : s \in DOMAIN schemes})

CURRENT_TIMESTAMP == {t \in {LatestStamp, LatestStamp + 1} : t >= 1}

----------------------------------------------------------------------------
(* The database files *)

\* database_setup.py: the file of database_setup and billing_system_mock.
DATABASE_NAME == "dealer_schemes.db"

\* sample_data.py, setup.py, app.py: the file of the app and its sample data.
AppDatabase == "dns_database.db"

\* database_setup.connect_db(): the operation runs on dealer_schemes.db.
connect_db_setup == database = DATABASE_NAME /\ UNCHANGED database

\* sample_data.connect_db() and the connect_db the app imports: the operation
\* runs on dns_database.db.
connect_db == database = AppDatabase /\ UNCHANGED database

\* The callers of the billing entry point that may run at the same time, each
\* a process with its own connections.
Callers == {1, 2}

\* A caller that has not called simulate_billing_api_call.
Idle == [at |-> "idle"]

----------------------------------------------------------------------------
(* Initial state: the tables of either file right after create_tables(); in
   dealer_schemes.db the products table has its dealer_price_dp column, which
   billing_system_mock.py adds before it first reads it. *)

Init ==
    /\ database \in {DATABASE_NAME, AppDatabase}
    /\ products = <<>>
    /\ schemes = <<>>
    /\ offers = <<>>
    /\ approvals = <<>>
    /\ sales = <<>>
    /\ dealers = 0
    /\ targets = <<>>
    /\ calls = [c \in Callers |-> Idle]
    /\ rules = <<>>
    /\ result = [op |-> "create_tables"]
----------------------------------------------------------------------------
(* database_setup.py: the writers of the catalogue *)

\* add_product: product_code is UNIQUE (NULLs never collide), so the INSERT
\* raises IntegrityError exactly when a row already holds this non-NULL code;
\* the handler then returns the id the SELECT finds first.
add_product(product_code, product_name) ==
    LET clash == \E p \in DOMAIN products :
                    product_code # NullText /\ products[p].product_code = product_code
        found == {p \in DOMAIN products :
                    \/ (product_code # NullText /\ products[p].product_code = product_code)
                    \/ (products[p].product_code = NullText
                        /\ products[p].product_name = product_name)}
    IN  /\ connect_db_setup
        /\ IF ~clash
           THEN /\ products' = Append(products,
                                  [product_code |-> product_code,
                                   product_name |-> product_name,
                                   dealer_price_dp |-> NULL])
                /\ result' = [op |-> "add_product",
                              product_code |-> product_code,
                              product_name |-> product_name,
                              id |-> Some(Len(products) + 1)]
           ELSE /\ products' = products
                /\ \E p \in found :
                      result' = [op |-> "add_product",
                                 product_code |-> product_code,
                                 product_name |-> product_name,
                                 id |-> Some(p)]
        /\ UNCHANGED <<schemes, offers, approvals, sales, dealers, targets, calls, rules>>

\* billing_system_mock.py __main__: UPDATE products SET dealer_price_dp = ?
update_dealer_price(product_id, price) ==
    /\ connect_db_setup
    /\ product_id \in DOMAIN products
    /\ products' = [products EXCEPT ![product_id].dealer_price_dp = Some(price)]
    /\ result' = [op |-> "update_dealer_price"]
    /\ UNCHANGED <<schemes, offers, approvals, sales, dealers, targets, calls, rules>>

\* add_deal: deal_name is UNIQUE NOT NULL; on IntegrityError the existing id is
\* returned and nothing is written.  The deals table has no approval column.
add_deal(deal_name, period_start, period_end, deal_status) ==
    LET same == {s \in DOMAIN schemes : schemes[s].scheme_name = deal_name}
    IN  /\ connect_db_setup
        /\ IF same = {}
           THEN \E now \in CURRENT_TIMESTAMP :
                  /\ schemes' = Append(schemes,
                                  [scheme_name |-> deal_name,
                                   scheme_period_start |-> period_start,
                                   scheme_period_end |-> period_end,
                                   upload_timestamp |-> now,
                                   deal_status |-> deal_status,
                                   approval_status |-> NullText])
                  /\ result' = [op |-> "add_deal", id |-> Some(Len(schemes) + 1)]
           ELSE /\ schemes' = schemes
                /\ \E s \in same : result' = [op |-> "add_deal", id |-> Some(s)]
        /\ UNCHANGED <<products, offers, approvals, sales, dealers, targets, calls, rules>>

\* add_deal_product_offer: a plain INSERT.  deal_product_offers has no bundle
\* and no slab column.
add_deal_product_offer(deal_id, product_id, payout_type, payout_value, is_dealer_incentive) ==
    /\ connect_db_setup
    /\ offers' = Append(offers,
                    [scheme_id |-> deal_id,
                     product_id |-> product_id,
                     payout_type |-> payout_type,
                     payout_value |-> payout_value,
                     is_dealer_incentive |-> is_dealer_incentive,
                     is_bundle_offer |-> FALSE,
                     is_slab_based |-> FALSE])
    /\ result' = [op |-> "add_deal_product_offer", id |-> Some(Len(offers) + 1)]
    /\ UNCHANGED <<products, schemes, approvals, sales, dealers, targets, calls, rules>>

----------------------------------------------------------------------------
(* billing_system_mock.py: offer resolution *)

\* The rows of the query's FROM ... JOIN ... WHERE for (product_id, sale_date).
MatchingOffers(product_id, sale_date) ==
    {o \in DOMAIN offers :
        /\ offers[o].scheme_id \in DOMAIN schemes
        /\ offers[o].product_id \in DOMAIN products
        /\ offers[o].product_id = product_id
        /\ schemes[offers[o].scheme_id].deal_status = "Active"
        /\ SqlLE(SqlDATE(schemes[offers[o].scheme_id].scheme_period_start),
                 isoformat(sale_date))
        /\ SqlLE(isoformat(sale_date),
                 SqlDATE(schemes[offers[o].scheme_id].scheme_period_end))}

\* An ordering by the offer id alone: ORDER BY dpo.offer_id DESC.
OrderedByOfferId(o1, o2) == o1 > o2

\* An ordering by the upload time alone: ORDER BY d.upload_timestamp DESC.
OrderedByUploadTime(o1, o2) ==
    schemes[offers[o1].scheme_id].upload_timestamp
        > schemes[offers[o2].scheme_id].upload_timestamp

\* ORDER BY d.upload_timestamp DESC, dpo.offer_id DESC: o1 sorts before o2.
OrderedBefore(o1, o2) ==
    \/ schemes[offers[o1].scheme_id].upload_timestamp
         > schemes[offers[o2].scheme_id].upload_timestamp
    \/ /\ schemes[offers[o1].scheme_id].upload_timestamp
            = schemes[offers[o2].scheme_id].upload_timestamp
       /\ o1 > o2

\* LIMIT 1: the rows SQLite may deliver first, those no other row sorts before.
FirstRows(rows) == {o \in rows : \A o2 \in rows : ~OrderedBefore(o2, o)}

\* get_active_deal_for_product: what fetchone() may return, NULL for no row.
get_active_deal_for_product(product_id, sale_date) ==
    IF MatchingOffers(product_id, sale_date) = {}
    THEN {NULL}
    ELSE {Some(o) : o \in FirstRows(MatchingOffers(product_id, sale_date))}

\* A call of the resolver on its own.
ResolveOffer(product_id, sale_date) ==
    /\ connect_db_setup
    /\ \E found \in get_active_deal_for_product(product_id, sale_date) :
          result' = [op |-> "get_active_deal_for_product",
                     product_id |-> product_id,
                     sale_date |-> sale_date,
                     offer |-> found]
    /\ UNCHANGED <<products, schemes, offers, approvals, sales, dealers, targets, calls, rules>>

----------------------------------------------------------------------------
(* billing_system_mock.py: settlement *)

\* "x / quantity if quantity > 0 else 0": the per-unit value of a total.
PerUnit(total, quantity) ==
    IF quantity > 0 THEN [total |-> total, per |-> quantity]
                    ELSE [total |-> 0, per |-> 1]

\* update_dealer_targets, the SELECT: the targets of the deal that name the
\* product or any product group, and are not achieved.
MatchingTargets(deal_id, product_id) ==
    {t \in DOMAIN targets :
        /\ targets[t].deal_id = deal_id
        /\ \/ targets[t].target_product_id = Some(product_id)
           \/ targets[t].target_product_group_description # NullText
        /\ ~targets[t].is_achieved}

\* A tracker that recomputes is_achieved of the deal's targets from the sale
\* at hand alone.
update_dealer_targets_from_sale(deal_id, product_id, quantity_sold) ==
    /\ targets' = [t \in DOMAIN targets |->
                     IF targets[t].deal_id = deal_id
                     THEN [targets[t] EXCEPT
                             !.is_achieved = quantity_sold >= targets[t].target_quantity]
                     ELSE targets[t]]
    /\ UNCHANGED <<products, schemes, offers, approvals, dealers, rules>>

\* A tracker that marks the deal's open targets achieved by the quantity of
\* the sale at hand, whatever product they name.
update_dealer_targets_any_product(deal_id, product_id, quantity_sold) ==
    /\ targets' = [t \in DOMAIN targets |->
                     IF /\ targets[t].deal_id = deal_id
                        /\ ~targets[t].is_achieved
                        /\ quantity_sold >= targets[t].target_quantity
                     THEN [targets[t] EXCEPT !.is_achieved = TRUE]
                     ELSE targets[t]]
    /\ UNCHANGED <<products, schemes, offers, approvals, dealers, rules>>

\* update_dealer_targets: for each selected target whose metric is 'Units
\* Sold' it prints that the target might be affected; it makes no write (the
\* body is a placeholder and its commit is commented out), so it leaves
\* every table as it is.
update_dealer_targets(deal_id, product_id, quantity_sold) ==
    UNCHANGED <<products, schemes, offers, approvals, dealers, targets, rules>>

\* Where a call of record_sale_transaction may raise sqlite3.Error: nowhere,
\* at the INSERT, or in update_dealer_targets.
StorageOutcomes == {"ok", "INSERT", "update_dealer_targets"}

\* A recording that commits only after update_dealer_targets has returned.
record_sale_commit_last(deal_id, product_id, offer_id, quantity_sold, dealer_price_dp, gst_amount, net_dp_after_support, applied_customer_discount_amount, earned_dealer_incentive_amount, raised) ==
    /\ sales' = IF raised # "ok" THEN sales
                ELSE Append(sales,
                       [scheme_id |-> Some(deal_id),
                        product_id |-> product_id,
                        offer_id |-> Some(offer_id),
                        quantity_sold |-> quantity_sold,
                        dealer_price_dp |-> Some(dealer_price_dp),
                        gst_amount |-> Some(gst_amount),
                        net_dp_after_support |-> Some(net_dp_after_support),
                        applied_customer_discount_amount |->
                            Some(applied_customer_discount_amount),
                        earned_dealer_incentive_amount |->
                            Some(earned_dealer_incentive_amount)])
    /\ update_dealer_targets(deal_id, product_id, quantity_sold)

\* record_sale_transaction: INSERT, commit, then update_dealer_targets on the
\* same connection.  raised says where sqlite3.Error is raised in this call:
\* at the INSERT nothing is committed; in update_dealer_targets the row is
\* committed already.  The function returns the transaction id when nothing
\* is raised and None otherwise.
record_sale_transaction(deal_id, product_id, offer_id, quantity_sold, dealer_price_dp, gst_amount, net_dp_after_support, applied_customer_discount_amount, earned_dealer_incentive_amount, raised) ==
    /\ sales' = IF raised = "INSERT" THEN sales
                ELSE Append(sales,
                       [scheme_id |-> Some(deal_id),
                        product_id |-> product_id,
                        offer_id |-> Some(offer_id),
                        quantity_sold |-> quantity_sold,
                        dealer_price_dp |-> Some(dealer_price_dp),
                        gst_amount |-> Some(gst_amount),
                        net_dp_after_support |-> Some(net_dp_after_support),
                        applied_customer_discount_amount |->
                            Some(applied_customer_discount_amount),
                        earned_dealer_incentive_amount |->
                            Some(earned_dealer_incentive_amount)])
    /\ update_dealer_targets(deal_id, product_id, quantity_sold)

\* A payout whose percentage is not divided by 100.
PayoutWithoutPercent(offer, net_dp, quantity) ==
    LET amount == IF offer.payout_type = "Percentage"
                  THEN net_dp * offer.payout_value * Hundred
                  ELSE IF offer.payout_type = "Fixed Amount"
                       THEN offer.payout_value * quantity * Hundred
                       ELSE 0
    IN  [applied_discount |-> IF offer.is_dealer_incentive THEN 0 ELSE amount,
         earned_incentive |-> IF offer.is_dealer_incentive THEN amount ELSE 0]

\* Step 3 of simulate_billing_api_call: the customer discount and the dealer
\* incentive of an offer row, in hundredths.
Payout(offer, net_dp, quantity) ==
    LET amount == IF offer.payout_type = "Percentage"
                  THEN net_dp * offer.payout_value
                  ELSE IF offer.payout_type = "Fixed Amount"
                       THEN offer.payout_value * quantity * Hundred
                       ELSE 0
    IN  [applied_discount |-> IF offer.is_dealer_incentive THEN 0 ELSE amount,
         earned_incentive |-> IF offer.is_dealer_incentive THEN amount ELSE 0]

\* A net price that the dealer incentive reduces too.
NetAfterAllSupport(net_dp, pay) ==
    net_dp * Hundred - pay.applied_discount - pay.earned_incentive

\* "net_dp - applied_discount", in hundredths (net_dp is in whole units).
NetAfterSupport(net_dp, pay) == net_dp * Hundred - pay.applied_discount

\* "net_dp_after_scheme_support * 0.18", in ten-thousandths.
GstAmount(net_dp_after_scheme_support) == net_dp_after_scheme_support * GstPercent

\* The payout_type branch of step 3 that computes the amount.
PayoutFormula(offer) ==
    IF offer.payout_type \in {"Percentage", "Fixed Amount"} THEN offer.payout_type
                                                            ELSE "none"

\* simulate_billing_api_call(product_id_to_sell, quantity, sale_date_iso)
simulate_billing_api_call(product_id_to_sell, quantity, sale_date) ==
    /\ connect_db_setup
    /\ UNCHANGED calls
    /\ \E active_offer \in get_active_deal_for_product(product_id_to_sell, sale_date) :
      IF active_offer = NULL
      THEN /\ result' = [op |-> "simulate_billing_api_call",
                         status |-> "error",
                         message |-> "No active offer found.",
                         quantity |-> quantity,
                         offer |-> NULL]
           /\ UNCHANGED <<products, schemes, offers, approvals, sales, dealers, targets, rules>>
      ELSE LET offer_id == active_offer[1]
               offer == offers[offer_id]
               price == products[offer.product_id].dealer_price_dp
               base_dp == IF price # NULL /\ price[1] # 0 THEN price[1] ELSE FallbackDP
               net_dp == base_dp * quantity
               pay == Payout(offer, net_dp, quantity)
               net_dp_after_scheme_support == NetAfterSupport(net_dp, pay)
               gst_amount_mock == GstAmount(net_dp_after_scheme_support)
           IN  \E raised \in StorageOutcomes :
                 /\ record_sale_transaction(
                        offer.scheme_id, product_id_to_sell, offer_id, quantity, base_dp,
                        gst_amount_mock,
                        PerUnit(net_dp_after_scheme_support, quantity),
                        PerUnit(pay.applied_discount, quantity),
                        PerUnit(pay.earned_incentive, quantity),
                        raised)
                 /\ result' = IF raised = "ok"
                              THEN [op |-> "simulate_billing_api_call",
                                    status |-> "success",
                                    transaction_id |-> Len(sales) + 1,
                                    quantity |-> quantity,
                                    offer |-> active_offer,
                                    base_dp |-> base_dp,
                                    formula |-> PayoutFormula(offer),
                                    discount_amount |-> pay.applied_discount,
                                    incentive_earned |-> pay.earned_incentive]
                              ELSE [op |-> "simulate_billing_api_call",
                                    status |-> "error",
                                    message |-> "Failed to record sale transaction.",
                                    raised |-> raised,
                                    quantity |-> quantity,
                                    offer |-> active_offer,
                                    base_dp |-> base_dp]

----------------------------------------------------------------------------
(* billing_system_mock.py: one billing call as the steps between which another
   caller's statements can fall.  Each step is one SQLite transaction: the
   resolver's SELECT on its own connection, the INSERT with its commit, and
   the SELECT of update_dealer_targets after the commit. *)

\* simulate_billing_api_call up to the call of record_sale_transaction: the
\* offer is resolved and the amounts are computed.  Without an offer the call
\* returns its error at once.
simulate_billing_api_call_resolve(c, product_id_to_sell, quantity, sale_date) ==
    /\ connect_db_setup
    /\ calls[c].at = "idle"
    /\ \E active_offer \in get_active_deal_for_product(product_id_to_sell, sale_date) :
      IF active_offer = NULL
      THEN /\ calls' = [calls EXCEPT ![c] = [at |-> "returned"]]
           /\ result' = [op |-> "simulate_billing_api_call",
                         status |-> "error",
                         message |-> "No active offer found.",
                         quantity |-> quantity,
                         offer |-> NULL]
      ELSE LET offer == offers[active_offer[1]]
               price == products[offer.product_id].dealer_price_dp
               base_dp == IF price # NULL /\ price[1] # 0 THEN price[1] ELSE FallbackDP
               pay == Payout(offer, base_dp * quantity, quantity)
           IN  /\ calls' = [calls EXCEPT ![c] =
                               [at |-> "resolved",
                                deal_id |-> offer.scheme_id,
                                product_id |-> product_id_to_sell,
                                offer_id |-> active_offer[1],
                                quantity |-> quantity,
                                base_dp |-> base_dp,
                                formula |-> PayoutFormula(offer),
                                pay |-> pay]]
               /\ result' = result
    /\ UNCHANGED <<products, schemes, offers, approvals, sales, dealers, targets, rules>>

\* record_sale_transaction, the INSERT and its commit; when the INSERT raises
\* sqlite3.Error nothing is committed and the call returns its error.
record_sale_transaction_insert(c, raised) ==
    /\ connect_db_setup
    /\ calls[c].at = "resolved"
    /\ LET call == calls[c]
           net == NetAfterSupport(call.base_dp * call.quantity, call.pay)
       IN  IF raised
           THEN /\ sales' = sales
                /\ calls' = [calls EXCEPT ![c] = [at |-> "returned"]]
                /\ result' = [op |-> "simulate_billing_api_call",
                              status |-> "error",
                              message |-> "Failed to record sale transaction.",
                              raised |-> "INSERT",
                              quantity |-> call.quantity,
                              offer |-> Some(call.offer_id),
                              base_dp |-> call.base_dp]
           ELSE /\ sales' = Append(sales,
                              [scheme_id |-> Some(call.deal_id),
                               product_id |-> call.product_id,
                               offer_id |-> Some(call.offer_id),
                               quantity_sold |-> call.quantity,
                               dealer_price_dp |-> Some(call.base_dp),
                               gst_amount |-> Some(GstAmount(net)),
                               net_dp_after_support |->
                                   Some(PerUnit(net, call.quantity)),
                               applied_customer_discount_amount |->
                                   Some(PerUnit(call.pay.applied_discount, call.quantity)),
                               earned_dealer_incentive_amount |->
                                   Some(PerUnit(call.pay.earned_incentive, call.quantity))])
                /\ calls' = [calls EXCEPT ![c] =
                                [call EXCEPT !.at = "committed"]
                                    @@ [transaction_id |-> Len(sales) + 1]]
                /\ result' = result
    /\ UNCHANGED <<products, schemes, offers, approvals, dealers, targets, rules>>

\* record_sale_transaction after the commit, and the return of the call:
\* update_dealer_targets runs; the call returns the transaction, or its error
\* when update_dealer_targets raised sqlite3.Error.
record_sale_transaction_track(c, raised) ==
    /\ connect_db_setup
    /\ calls[c].at = "committed"
    /\ update_dealer_targets(calls[c].deal_id, calls[c].product_id, calls[c].quantity)
    /\ sales' = sales
    /\ calls' = [calls EXCEPT ![c] = [at |-> "returned"]]
    /\ result' = IF ~raised
                 THEN [op |-> "simulate_billing_api_call",
                       status |-> "success",
                       transaction_id |-> calls[c].transaction_id,
                       quantity |-> calls[c].quantity,
                       offer |-> Some(calls[c].offer_id),
                       base_dp |-> calls[c].base_dp,
                       formula |-> calls[c].formula,
                       discount_amount |-> calls[c].pay.applied_discount,
                       incentive_earned |-> calls[c].pay.earned_incentive]
                 ELSE [op |-> "simulate_billing_api_call",
                       status |-> "error",
                       message |-> "Failed to record sale transaction.",
                       raised |-> "update_dealer_targets",
                       quantity |-> calls[c].quantity,
                       offer |-> Some(calls[c].offer_id),
                       base_dp |-> calls[c].base_dp]

----------------------------------------------------------------------------
(* app.py: upload, edit, approval and the sales page *)

Min(S) == CHOOSE x \in S : \A y \in S : x <= y

\* Every id is INTEGER PRIMARY KEY AUTOINCREMENT: the id of a deleted row is
\* never given to a later row.  A table is the sequence of the rows by id, so
\* a deleted row keeps its place, with no value in any column that a query
\* could match.
Deleted == "DELETED"

DeletedProduct ==
    [product_code |-> NullText, product_name |-> Deleted, dealer_price_dp |-> NULL]

DeletedScheme ==
    [scheme_name |-> Deleted, scheme_period_start |-> NULL, scheme_period_end |-> NULL,
     upload_timestamp |-> 0, deal_status |-> Deleted, approval_status |-> Deleted]

DeletedOffer ==
    [scheme_id |-> 0, product_id |-> 0, payout_type |-> Deleted, payout_value |-> 0,
     is_dealer_incentive |-> FALSE, is_bundle_offer |-> FALSE, is_slab_based |-> FALSE]

DeletedApproval == [scheme_id |-> 0, approval_status |-> Deleted]

DeletedSale ==
    [scheme_id |-> NULL, product_id |-> 0, offer_id |-> NULL, quantity_sold |-> 0,
     dealer_price_dp |-> NULL, gst_amount |-> NULL, net_dp_after_support |-> NULL,
     applied_customer_discount_amount |-> NULL, earned_dealer_incentive_amount |-> NULL]

DeletedRule == [scheme_id |-> 0, rule_type |-> Deleted]

\* DELETE FROM table: every row of the table is deleted.
DeleteFrom(table, deleted) == [i \in DOMAIN table |-> deleted]

\* The ids of the rows a SELECT on products, on schemes, on scheme_products
\* finds.
ProductIds(prods) == {p \in DOMAIN prods : prods[p] # DeletedProduct}

SchemeIds(schs) == {s \in DOMAIN schs : schs[s] # DeletedScheme}

OfferIds(offs) == {o \in DOMAIN offs : offs[o] # DeletedOffer}

\* render_upload_scheme, "Insert products": for each product of the extracted
\* descriptor, look the product up by name (insert it with the default dealer
\* price when absent) and insert the scheme_products row.  The result is the
\* tables after the loop, or ok = FALSE when an INSERT raised IntegrityError
\* (a product_code that another product holds).
RECURSIVE InsertProducts(_, _, _, _)
InsertProducts(list, scheme_id, prods, offs) ==
    IF list = <<>>
    THEN [ok |-> TRUE, products |-> prods, offers |-> offs]
    ELSE LET product_data == Head(list)
             product_result == {p \in DOMAIN prods :
                                  prods[p].product_name = product_data.product_name}
             clash == \E p \in DOMAIN prods :
                         /\ product_data.product_code # NullText
                         /\ prods[p].product_code = product_data.product_code
             product_id == IF product_result # {} THEN Min(product_result)
                                                  ELSE Len(prods) + 1
             prods2 == IF product_result # {} THEN prods
                       ELSE Append(prods,
                                [product_code |-> product_data.product_code,
                                 product_name |-> product_data.product_name,
                                 dealer_price_dp |-> Some(FallbackDP)])
             offs2 == Append(offs,
                         [scheme_id |-> scheme_id,
                          product_id |-> product_id,
                          payout_type |-> product_data.payout_type,
                          payout_value |-> product_data.payout_amount,
                          is_dealer_incentive |-> FALSE,
                          is_bundle_offer |-> product_data.is_bundle_offer,
                          is_slab_based |-> FALSE])
         IN  IF product_result = {} /\ clash
             THEN [ok |-> FALSE, products |-> prods, offers |-> offs]
             ELSE InsertProducts(Tail(list), scheme_id, prods2, offs2)

\* Where "Save to Database" may raise an exception that is not in the data
\* (the storage fails): nowhere, or at the INSERT into one of the tables.
UploadOutcomes == {"ok", "schemes", "products", "scheme_products", "scheme_rules"}

\* The statement a save fails at, "ok" for none: the exception raised from
\* outside, or the IntegrityError of a scheme name or a product code that is
\* held already.
FailedAt(scheme_clash, saved, raised) ==
    IF raised = "schemes" \/ scheme_clash THEN "schemes"
    ELSE IF ~saved.ok THEN "products"
    ELSE raised

\* The scheme_rules rows of a descriptor's rules.
RuleRows(scheme_id, scheme_rules) ==
    [i \in DOMAIN scheme_rules |->
        [scheme_id |-> scheme_id, rule_type |-> scheme_rules[i].rule_type]]

\* A save on a connection that commits each statement as it is executed: the
\* rows written before a failure stay.
render_upload_scheme_autocommit(scheme_name, period_start, period_end, product_list, scheme_rules, raised) ==
    LET scheme_id == Len(schemes) + 1
        saved == InsertProducts(product_list, scheme_id, products, offers)
        clash == \E s \in DOMAIN schemes : schemes[s].scheme_name = scheme_name
        failed_at == FailedAt(clash, saved, raised)
    IN  /\ connect_db
        /\ \E now \in CURRENT_TIMESTAMP :
              schemes' = IF failed_at = "schemes" THEN schemes
                         ELSE Append(schemes,
                                [scheme_name |-> scheme_name,
                                 scheme_period_start |-> period_start,
                                 scheme_period_end |-> period_end,
                                 upload_timestamp |-> now,
                                 deal_status |-> "Active",
                                 approval_status |-> "Pending"])
        /\ products' = IF failed_at = "schemes" THEN products ELSE saved.products
        /\ offers' = IF failed_at = "schemes" THEN offers ELSE saved.offers
        /\ rules' = IF failed_at = "ok" THEN rules \o RuleRows(scheme_id, scheme_rules)
                                        ELSE rules
        /\ result' = IF failed_at = "ok"
                      THEN [op |-> "render_upload_scheme", status |-> "success",
                            id |-> Some(scheme_id)]
                      ELSE [op |-> "render_upload_scheme", status |-> "error",
                            id |-> NULL, failed_at |-> failed_at,
                            product_list |-> product_list]
        /\ UNCHANGED <<approvals, sales, dealers, targets, calls>>

\* render_upload_scheme, "Save to Database": the scheme, its products, its
\* scheme_products and its rules are inserted on one connection and committed
\* at the end; any exception on the way rolls the transaction back.  The
\* scheme is inserted Active and Pending.
render_upload_scheme(scheme_name, period_start, period_end, product_list, scheme_rules, raised) ==
    LET scheme_id == Len(schemes) + 1
        saved == InsertProducts(product_list, scheme_id, products, offers)
        clash == \E s \in DOMAIN schemes : schemes[s].scheme_name = scheme_name
        failed_at == FailedAt(clash, saved, raised)
    IN  /\ connect_db
        /\ IF failed_at = "ok"
           THEN \E now \in CURRENT_TIMESTAMP :
                  /\ schemes' = Append(schemes,
                                  [scheme_name |-> scheme_name,
                                   scheme_period_start |-> period_start,
                                   scheme_period_end |-> period_end,
                                   upload_timestamp |-> now,
                                   deal_status |-> "Active",
                                   approval_status |-> "Pending"])
                  /\ products' = saved.products
                  /\ offers' = saved.offers
                  /\ rules' = rules \o RuleRows(scheme_id, scheme_rules)
                  /\ result' = [op |-> "render_upload_scheme", status |-> "success",
                                id |-> Some(scheme_id)]
           ELSE /\ UNCHANGED <<schemes, products, offers, rules>>
                /\ result' = [op |-> "render_upload_scheme", status |-> "error",
                              id |-> NULL, failed_at |-> failed_at,
                              product_list |-> product_list]
        /\ UNCHANGED <<approvals, sales, dealers, targets, calls>>

\* render_edit_scheme, "Submit for Approval": insert a Pending approval request,
\* write the form's scheme fields with approval_status = 'Pending', and write
\* the form's payout fields and bundle flag of the scheme's products.  edits maps each edited
\* scheme_products id to its form values.
render_edit_scheme(scheme_id, deal_status, period_start, period_end, edits) ==
    /\ connect_db
    /\ scheme_id \in SchemeIds(schemes)
    /\ DOMAIN edits \subseteq {o \in DOMAIN offers : offers[o].scheme_id = scheme_id}
    /\ approvals' = Append(approvals,
                       [scheme_id |-> scheme_id, approval_status |-> "Pending"])
    /\ schemes' = [schemes EXCEPT ![scheme_id] =
                      [@ EXCEPT !.scheme_period_start = period_start,
                                !.scheme_period_end = period_end,
                                !.deal_status = deal_status,
                                !.approval_status = "Pending"]]
    /\ offers' = [o \in DOMAIN offers |->
                    IF o \in DOMAIN edits
                    THEN [offers[o] EXCEPT !.payout_type = edits[o].payout_type,
                                           !.payout_value = edits[o].payout_amount,
                                           !.is_bundle_offer = edits[o].is_bundle_offer]
                    ELSE offers[o]]
    /\ result' = [op |-> "render_edit_scheme", id |-> Some(Len(approvals) + 1)]
    /\ UNCHANGED <<products, sales, dealers, targets, calls, rules>>

\* The rows of the approvals page: Pending requests joined with their scheme.
PendingApprovals ==
    {a \in DOMAIN approvals :
        /\ approvals[a].approval_status = "Pending"
        /\ approvals[a].scheme_id \in SchemeIds(schemes)}

\* render_approvals, "Approve" / "Reject" of one listed request: the request
\* and its scheme both take the decision.
render_approvals(approval_id, decision) ==
    /\ connect_db
    /\ approval_id \in PendingApprovals
    /\ approvals' = [approvals EXCEPT ![approval_id].approval_status = decision]
    /\ schemes' = [schemes EXCEPT
                      ![approvals[approval_id].scheme_id].approval_status = decision]
    /\ result' = [op |-> "render_approvals", status |-> "success",
                  approval_id |-> approval_id, decision |-> decision]
    /\ UNCHANGED <<products, offers, sales, dealers, targets, calls, rules>>

\* render_simulate_sales, "Calculate incentive based on payout type", in
\* hundredths.
incentive_amount(payout_type, payout_amount, dealer_price, quantity) ==
    IF payout_type = "Percentage"
    THEN dealer_price * payout_amount * quantity
    ELSE payout_amount * quantity * Hundred

\* render_simulate_sales, "Simulate Sale" then "Record This Sale", for the
\* scheme_products row the page selected: the scheme is one of the Active
\* schemes, an active dealer exists, and the quantity input is at least 1.
render_simulate_sales(selected_scheme_id, offer_id, quantity, sale_date) ==
    /\ connect_db
    /\ selected_scheme_id \in SchemeIds(schemes)
    /\ schemes[selected_scheme_id].deal_status = "Active"
    /\ dealers > 0
    /\ offer_id \in OfferIds(offers)
    /\ offers[offer_id].scheme_id = selected_scheme_id
    /\ offers[offer_id].product_id \in ProductIds(products)
    /\ quantity >= 1
    /\ LET price == products[offers[offer_id].product_id].dealer_price_dp
           dealer_price == IF price # NULL THEN price[1] ELSE FallbackDP
           incentive == incentive_amount(offers[offer_id].payout_type,
                                         offers[offer_id].payout_value,
                                         dealer_price, quantity)
       IN  /\ sales' = Append(sales,
                          [scheme_id |-> Some(selected_scheme_id),
                           product_id |-> offers[offer_id].product_id,
                           offer_id |-> NULL,
                           quantity_sold |-> quantity,
                           dealer_price_dp |-> Some(dealer_price),
                           gst_amount |-> NULL,
                           net_dp_after_support |-> NULL,
                           applied_customer_discount_amount |-> NULL,
                           earned_dealer_incentive_amount |->
                               Some([total |-> incentive, per |-> 1])])
           /\ result' = [op |-> "render_simulate_sales",
                         status |-> "success",
                         transaction_id |-> Len(sales) + 1,
                         quantity |-> quantity,
                         offer |-> Some(offer_id),
                         base_dp |-> dealer_price,
                         formula |-> IF offers[offer_id].payout_type = "Percentage"
                                     THEN "Percentage" ELSE "Fixed",
                         discount_amount |-> 0,
                         incentive_earned |-> incentive]
    /\ UNCHANGED <<products, schemes, offers, approvals, dealers, targets, calls, rules>>

----------------------------------------------------------------------------
(* sample_data.py *)

\* The products list of add_sample_data: name, code, dealer_price_dp.
SampleProducts ==
    << [product_name |-> "Galaxy S23 Ultra", product_code |-> "SM-S918", dealer_price_dp |-> Some(89999)],
       [product_name |-> "Galaxy S23+", product_code |-> "SM-S916", dealer_price_dp |-> Some(74999)],
       [product_name |-> "Galaxy S23", product_code |-> "SM-S911", dealer_price_dp |-> Some(64999)],
       [product_name |-> "Galaxy Z Fold5", product_code |-> "SM-F946", dealer_price_dp |-> Some(154999)],
       [product_name |-> "Galaxy Z Flip5", product_code |-> "SM-F731", dealer_price_dp |-> Some(99999)],
       [product_name |-> "Galaxy A54", product_code |-> "SM-A546", dealer_price_dp |-> Some(34999)],
       [product_name |-> "Galaxy A34", product_code |-> "SM-A346", dealer_price_dp |-> Some(24999)],
       [product_name |-> "Galaxy Tab S9 Ultra", product_code |-> "SM-X916", dealer_price_dp |-> Some(99999)],
       [product_name |-> "Galaxy Tab S9+", product_code |-> "SM-X816", dealer_price_dp |-> Some(84999)],
       [product_name |-> "Galaxy Tab S9", product_code |-> "SM-X716", dealer_price_dp |-> Some(69999)],
       [product_name |-> "Galaxy Book3 Pro", product_code |-> "NP960", dealer_price_dp |-> Some(114999)],
       [product_name |-> "Galaxy Watch6 Classic", product_code |-> "SM-R960", dealer_price_dp |-> Some(34999)],
       [product_name |-> "Galaxy Buds2 Pro", product_code |-> "SM-R510", dealer_price_dp |-> Some(17999)] >>

\* The two schemes of add_sample_data, August 2023, inserted Active and Approved.
SampleSchemeNames == <<"Samsung Upgrade Program - GT", "Special Support - Galaxy Book">>

\* The scheme rows add_sample_data inserts at time now.
SampleSchemes(now) ==
    [i \in DOMAIN SampleSchemeNames |->
        [scheme_name |-> SampleSchemeNames[i],
         scheme_period_start |-> <<2023, 8, 1>>,
         scheme_period_end |-> <<2023, 8, 31>>,
         upload_timestamp |-> now,
         deal_status |-> "Active",
         approval_status |-> "Approved"]]

\* The scheme_products rows of add_sample_data; the product ids are literals.
SampleSchemeProducts(first_scheme_id) ==
    << [scheme_id |-> first_scheme_id, product_id |-> 3, payout_type |-> "Fixed",
        payout_value |-> 5000, is_dealer_incentive |-> FALSE,
        is_bundle_offer |-> FALSE, is_slab_based |-> FALSE],
       [scheme_id |-> first_scheme_id, product_id |-> 4, payout_type |-> "Fixed",
        payout_value |-> 8000, is_dealer_incentive |-> FALSE,
        is_bundle_offer |-> FALSE, is_slab_based |-> FALSE],
       [scheme_id |-> first_scheme_id, product_id |-> 5, payout_type |-> "Fixed",
        payout_value |-> 6000, is_dealer_incentive |-> FALSE,
        is_bundle_offer |-> FALSE, is_slab_based |-> FALSE],
       [scheme_id |-> first_scheme_id + 1, product_id |-> 11, payout_type |-> "Fixed",
        payout_value |-> 10000, is_dealer_incentive |-> TRUE,
        is_bundle_offer |-> FALSE, is_slab_based |-> FALSE],
       [scheme_id |-> first_scheme_id + 1, product_id |-> 12, payout_type |-> "Percentage",
        payout_value |-> 10, is_dealer_incentive |-> FALSE,
        is_bundle_offer |-> TRUE, is_slab_based |-> FALSE] >>

\* add_sample_data, "Calculate incentive": per unit, in hundredths.
sample_incentive(payout_type, payout_amount, dealer_price) ==
    IF payout_type = "Percentage" THEN dealer_price * payout_amount
                                  ELSE payout_amount * Hundred

\* One round of "Add sample sales data" over the tables as add_sample_data has
\* filled them: a random scheme, a random scheme_products row of it that joins
\* a product, a quantity between 1 and 3.  No row is written when the scheme
\* has no such product; the round raises TypeError when the product has no
\* dealer price and the payout is a percentage.
SampleSaleRound(schs, offs, prods) ==
    UNION {
      LET rows == {o \in OfferIds(offs) :
                     offs[o].scheme_id = s /\ offs[o].product_id \in ProductIds(prods)}
      IN  IF rows = {}
          THEN {[crash |-> FALSE, rows |-> <<>>]}
          ELSE UNION {
                 LET dealer_price == prods[offs[o].product_id].dealer_price_dp
                 IN  IF dealer_price = NULL /\ offs[o].payout_type = "Percentage"
                     THEN {[crash |-> TRUE, rows |-> <<>>]}
                     ELSE {[crash |-> FALSE,
                            rows |-> << [scheme_id |-> Some(s),
                                         product_id |-> offs[o].product_id,
                                         offer_id |-> NULL,
                                         quantity_sold |-> quantity,
                                         dealer_price_dp |-> dealer_price,
                                         gst_amount |-> NULL,
                                         net_dp_after_support |-> NULL,
                                         applied_customer_discount_amount |-> NULL,
                                         earned_dealer_incentive_amount |->
                                           Some([total |->
                                                   sample_incentive(
                                                     offs[o].payout_type,
                                                     offs[o].payout_value,
                                                     IF dealer_price = NULL THEN 0
                                                     ELSE dealer_price[1]) * quantity,
                                                 per |-> 1])] >>]
                             : quantity \in 1..3}
                 : o \in rows}
      : s \in SchemeIds(schs)}

\* The sample sales loop, rounds times.
RECURSIVE SampleSales(_, _, _, _)
SampleSales(rounds, schs, offs, prods) ==
    IF rounds = 0
    THEN {[crash |-> FALSE, rows |-> <<>>]}
    ELSE {[crash |-> first.crash \/ rest.crash, rows |-> first.rows \o rest.rows] :
            first \in SampleSaleRound(schs, offs, prods),
            rest \in SampleSales(rounds - 1, schs, offs, prods)}

\* The sample sales of outcome sold sell only (product, quantity) pairs of draws.
DrawnFrom(sold, draws) ==
    \A i \in DOMAIN sold.rows :
        <<sold.rows[i].product_id, sold.rows[i].quantity_sold>> \in draws

\* add_sample_data: dealers, products, the two schemes with their products and
\* the sample sales, committed together at the end; an exception on the way
\* (a product_code or a scheme name already present, a TypeError in the sales
\* loop) leaves nothing committed.  draws holds the (product, quantity) pairs
\* that the loop's ORDER BY RANDOM() and random.randint may deliver in a run.
add_sample_data(draws) ==
    LET code_clash == \E i \in DOMAIN SampleProducts, p \in DOMAIN products :
                         products[p].product_code = SampleProducts[i].product_code
        name_clash == \E i \in DOMAIN SampleSchemeNames, s \in DOMAIN schemes :
                         schemes[s].scheme_name = SampleSchemeNames[i]
        prods == products \o SampleProducts
        offs == offers \o SampleSchemeProducts(Len(schemes) + 1)
        rollback == /\ UNCHANGED <<products, schemes, offers, sales, dealers>>
                    /\ result' = [op |-> "add_sample_data", status |-> "error"]
    IN  /\ connect_db
        /\ IF code_clash \/ name_clash
           THEN rollback
           ELSE \E now \in CURRENT_TIMESTAMP :
                  LET schs == schemes \o SampleSchemes(now)
                  IN  \E sold \in {x \in SampleSales(SampleSaleRounds, schs, offs, prods) :
                                       DrawnFrom(x, draws)} :
                        IF sold.crash
                        THEN rollback
                        ELSE /\ dealers' = dealers + SampleDealers
                             /\ products' = prods
                             /\ schemes' = schs
                             /\ offers' = offs
                             /\ sales' = sales \o sold.rows
                             /\ result' = [op |-> "add_sample_data", status |-> "success"]
        /\ UNCHANGED <<approvals, targets, calls, rules>>

\* render_settings, "Reset Sample Data": DELETE every row of
\* sales_transactions, scheme_products, scheme_rules, scheme_approvals,
\* schemes, products and dealers, commit, then add_sample_data() on the emptied tables (the
\* function of that name for this database, sample_data.py).  The new rows
\* take the ids after the deleted ones, while the sample scheme_products name
\* their products by the literal ids 3, 4, 5, 11 and 12.
render_settings(draws) ==
    LET prods == DeleteFrom(products, DeletedProduct) \o SampleProducts
        offs == DeleteFrom(offers, DeletedOffer) \o SampleSchemeProducts(Len(schemes) + 1)
    IN  /\ connect_db
        /\ \E now \in CURRENT_TIMESTAMP :
             LET schs == DeleteFrom(schemes, DeletedScheme) \o SampleSchemes(now)
             IN  \E sold \in {x \in SampleSales(SampleSaleRounds, schs, offs, prods) :
                                  DrawnFrom(x, draws) /\ ~x.crash} :
                   /\ dealers' = SampleDealers
                   /\ products' = prods
                   /\ schemes' = schs
                   /\ offers' = offs
                   /\ approvals' = DeleteFrom(approvals, DeletedApproval)
                   /\ rules' = DeleteFrom(rules, DeletedRule)
                   /\ sales' = DeleteFrom(sales, DeletedSale) \o sold.rows
        /\ result' = [op |-> "render_settings", status |-> "success"]
        /\ UNCHANGED <<targets, calls>>

----------------------------------------------------------------------------
(* Inputs of the operations *)

\* (product_code, product_name) of the products a run adds.
ProductInputs == {<<"c1", "A">>, <<"c2", "B">>}

\* Scheme names; scheme names are unique, so a run holds at most these schemes.
SchemeNames == {"D1", "D2"}

\* A scheme period [start, end], and one whose start is no date.
OnePeriod == <<<<2025, 5, 10>>, <<2025, 5, 31>>>>

PeriodInputs == {OnePeriod, <<NULL, <<2025, 5, 31>>>>}

\* Payout types: the two the app writes, the one billing_system_mock.py tests
\* for besides 'Percentage', and the edit form's 'Other'.
PayoutTypes == {"Fixed", "Percentage", "Fixed Amount", "Other"}

\* Payout values: none, 10 (percent, or per unit), 150 (more than the whole
\* price as a percentage), 500 per unit.
PayoutValues == {0, 10, 150, 500}

\* Dealer prices written by the billing mock's test set-up.
DealerPrices == {0, 25000}

\* Products that some offer row names: the ones a sale can be about.
OfferedProducts == {offers[o].product_id : o \in DOMAIN offers} \cap DOMAIN products

----------------------------------------------------------------------------
(* The app on dns_database.db: sample data, upload, edit, approval decisions
   and the sales page *)

InitApp == Init /\ database = AppDatabase

\* The draws of the sample sales loop where every round that finds a product
\* draws the sample product 3 and quantity 1.
FirstDraws == {<<3, 1>>}

AddSampleData == add_sample_data(FirstDraws)

\* The descriptors an upload extracts: no product, or one product.
UploadedProducts ==
    {<<>>, << [product_code |-> "c1", product_name |-> "A",
               payout_type |-> "Percentage", payout_amount |-> 10,
               is_bundle_offer |-> FALSE] >>}

UploadScheme ==
    \E list \in UploadedProducts :
        render_upload_scheme("D1", OnePeriod[1], OnePeriod[2], list, <<>>, "ok")

\* The edit forms submitted for scheme s: the status kept or switched off, or
\* the payout of the scheme's first product changed.
EditForms(s) ==
    {[deal_status |-> "Active", edits |-> <<>>],
     [deal_status |-> "Inactive", edits |-> <<>>]}
    \cup {[deal_status |-> "Active",
           edits |-> o :> [payout_type |-> "Fixed", payout_amount |-> 0,
                           is_bundle_offer |-> offers[o].is_bundle_offer]] :
             o \in {o \in DOMAIN offers :
                      /\ offers[o].scheme_id = s
                      /\ \A o2 \in DOMAIN offers : offers[o2].scheme_id = s => o <= o2}}

SubmitForApproval ==
    /\ Len(approvals) < MaxApprovals
    /\ \E s \in DOMAIN schemes :
          \E form \in EditForms(s) :
              render_edit_scheme(s, form.deal_status, schemes[s].scheme_period_start,
                                 schemes[s].scheme_period_end, form.edits)

Approve == \E a \in DOMAIN approvals : render_approvals(a, "Approved")

Reject == \E a \in DOMAIN approvals : render_approvals(a, "Rejected")

\* Sales besides the ones add_sample_data wrote.
RecordThisSale ==
    /\ Len(sales) < SampleSaleRounds + MaxSales
    /\ \E s \in DOMAIN schemes, o \in DOMAIN offers :
          render_simulate_sales(s, o, 1, <<2025, 6, 1>>)

\* "Reset Sample Data", while the clock has not passed MaxTime and the scheme
\* ids have not passed MaxSchemeId.
ResetSampleData ==
    /\ LatestStamp < MaxTime
    /\ Len(schemes) < MaxSchemeId
    /\ render_settings(FirstDraws)

Next ==
    \/ AddSampleData
    \/ UploadScheme
    \/ SubmitForApproval
    \/ Approve
    \/ Reject
    \/ RecordThisSale
    \/ ResetSampleData

Spec == InitApp /\ [][Next]_vars

----------------------------------------------------------------------------
(* Saves of extracted schemes on dns_database.db, with descriptors and
   storage failures that stop a save on its way *)

\* The product lists of the descriptors: besides those of UploadedProducts,
\* one product with another code, and two products of which the second has
\* a new name and the code the first has just been inserted with.
UploadLists ==
    UploadedProducts
    \cup {<< [product_code |-> "c2", product_name |-> "B",
               payout_type |-> "Fixed", payout_amount |-> 500,
               is_bundle_offer |-> FALSE] >>,
           << [product_code |-> "c1", product_name |-> "A",
               payout_type |-> "Percentage", payout_amount |-> 10,
               is_bundle_offer |-> FALSE],
              [product_code |-> "c1", product_name |-> "B",
               payout_type |-> "Fixed", payout_amount |-> 500,
               is_bundle_offer |-> FALSE] >>}

\* The rules of the descriptors: none, or one.
UploadedRules == {<<>>, << [rule_type |-> "Eligibility"] >>}

\* An INSERT into a table can raise only in a save that inserts into it.
CanRaise(raised, list, scheme_rules) ==
    /\ raised \in {"products", "scheme_products"} => list # <<>>
    /\ raised = "scheme_rules" => scheme_rules # <<>>

UploadSave ==
    \E name \in SchemeNames, list \in UploadLists, scheme_rules \in UploadedRules,
       raised \in UploadOutcomes :
        /\ CanRaise(raised, list, scheme_rules)
        /\ render_upload_scheme(name, OnePeriod[1], OnePeriod[2], list, scheme_rules, raised)

NextUpload == UploadSave \/ AddSampleData

SpecUpload == InitApp /\ [][NextUpload]_vars

----------------------------------------------------------------------------
(* Offer resolution over catalogues written by database_setup.py *)

InitSetup == Init /\ database = DATABASE_NAME

ResolveAddProduct == \E pi \in ProductInputs : add_product(pi[1], pi[2])

ResolveAddDeal ==
    \E name \in SchemeNames, period \in PeriodInputs, status \in {"Active", "Inactive"} :
        add_deal(name, period[1], period[2], status)

ResolveAddOffer ==
    /\ Len(offers) < MaxOffers
    /\ \E d \in DOMAIN schemes, p \in DOMAIN products :
          add_deal_product_offer(d, p, "Percentage", 10, FALSE)

ResolveCall == \E p \in DOMAIN products, d \in Dates : ResolveOffer(p, d)

NextResolve ==
    \/ ResolveAddProduct
    \/ ResolveAddDeal
    \/ ResolveAddOffer
    \/ ResolveCall

SpecResolve == InitSetup /\ [][NextResolve]_vars

----------------------------------------------------------------------------
(* The products table under repeated calls of add_product *)

\* Product codes, NULL among them, and product names of the calls.
CatalogueCodes == {NullText, "c1", "c2"}

CatalogueNames == {"A", "B"}

CatalogueAddProduct ==
    /\ Len(products) < MaxProducts
    /\ \E code \in CatalogueCodes, name \in CatalogueNames : add_product(code, name)

\* A repeated call once the table is full: it inserts nothing when its code
\* is held already.
CatalogueAddAgain ==
    /\ Len(products) = MaxProducts
    /\ \E p \in DOMAIN products :
          /\ products[p].product_code # NullText
          /\ add_product(products[p].product_code, products[p].product_name)

NextCatalogue ==
    \/ CatalogueAddProduct
    \/ CatalogueAddAgain

SpecCatalogue == InitSetup /\ [][NextCatalogue]_vars

----------------------------------------------------------------------------
(* Settlement of sales on one offer under test, on either database *)

\* The dealer_targets rows of deal 1.  The repository creates the table and
\* reads it in update_dealer_targets but has no writer for it ("further
\* functions for sales_transactions and dealer_targets will be added"), so
\* its rows are put into the database file directly: none, or one target of
\* TargetQuantity units (or of that sales value), not achieved (the column
\* default) or achieved.  The target is one of deal 1 that names product 1
\* or a product group, by either metric; or one that a sale of product 1 in
\* deal 1 is not about: of deal 1 and naming another product, with or
\* without a group, or of another deal.  The foreign keys of the table are
\* not enforced (no PRAGMA foreign_keys).
TargetQuantity == 2

TargetRow(deal, tp, metric, achieved) ==
    [deal_id |-> deal,
     target_product_id |-> tp[1],
     target_product_group_description |-> tp[2],
     target_quantity |-> TargetQuantity,
     target_value |-> IF metric = "Sales Value"
                      THEN Some(TargetQuantity * FallbackDP) ELSE NULL,
     target_metric |-> metric,
     is_achieved |-> achieved]

TargetRows ==
    {<<>>}
    \cup {<<TargetRow(1, tp, metric, achieved)>> :
            tp \in {<<Some(1), NullText>>, <<NULL, "Smart Phones">>},
            metric \in {"Units Sold", "Sales Value"},
            achieved \in BOOLEAN}
    \cup {<<TargetRow(1, tp, "Units Sold", achieved)>> :
            tp \in {<<Some(2), NullText>>, <<Some(2), "Smart Phones">>},
            achieved \in BOOLEAN}
    \cup {<<TargetRow(2, <<Some(1), NullText>>, "Units Sold", achieved)>> :
            achieved \in BOOLEAN}

\* dealer_schemes.db after add_product("c1", "A"), add_deal("D1", ...,
\* "Active") and one add_deal_product_offer: the offer under test.
InitPayoutSetup ==
    \E ptype \in PayoutTypes, pvalue \in PayoutValues, inc \in BOOLEAN :
        /\ database = DATABASE_NAME
        /\ products = << [product_code |-> "c1", product_name |-> "A",
                          dealer_price_dp |-> NULL] >>
        /\ schemes = << [scheme_name |-> "D1",
                         scheme_period_start |-> OnePeriod[1],
                         scheme_period_end |-> OnePeriod[2],
                         upload_timestamp |-> 1,
                         deal_status |-> "Active",
                         approval_status |-> NullText] >>
        /\ offers = << [scheme_id |-> 1, product_id |-> 1, payout_type |-> ptype,
                        payout_value |-> pvalue, is_dealer_incentive |-> inc,
                        is_bundle_offer |-> FALSE, is_slab_based |-> FALSE] >>
        /\ approvals = <<>>
        /\ sales = <<>>
        /\ dealers = 0
        /\ targets \in TargetRows
        /\ calls = [c \in Callers |-> Idle]
        /\ rules = <<>>
        /\ result = [op |-> "add_deal_product_offer", id |-> Some(1)]

\* dns_database.db after add_sample_data on the empty database (every round of
\* its sales loop drawing the first scheme, product 3 and quantity 1) and one
\* "Submit for Approval" on the second sample scheme that sets the payout of
\* one of its two products: the offer under test, the sample's dealer
\* incentive (row 4) or its customer-facing one (row 5).
InitPayoutApp ==
    \E o \in {4, 5}, ptype \in {"Fixed", "Percentage", "Other"}, pvalue \in PayoutValues :
        /\ database = AppDatabase
        /\ products = SampleProducts
        /\ schemes = [SampleSchemes(1) EXCEPT ![2].approval_status = "Pending"]
        /\ offers = [SampleSchemeProducts(1) EXCEPT ![o].payout_type = ptype,
                                                    ![o].payout_value = pvalue]
        /\ approvals = << [scheme_id |-> 2, approval_status |-> "Pending"] >>
        /\ sales \in {sold.rows : sold \in
                        {x \in SampleSales(SampleSaleRounds, SampleSchemes(1),
                                           SampleSchemeProducts(1), SampleProducts) :
                            /\ DrawnFrom(x, FirstDraws)
                            /\ \A i \in DOMAIN x.rows : x.rows[i].scheme_id = Some(1)}}
        /\ dealers = SampleDealers
        /\ targets = <<>>
        /\ calls = [c \in Callers |-> Idle]
        /\ rules = <<>>
        /\ result = [op |-> "render_edit_scheme", id |-> Some(1)]

InitPayout == InitPayoutSetup \/ InitPayoutApp

\* Sale dates inside and outside the periods of the schemes above.
PayoutDates == {<<2023, 8, 15>>, <<2025, 5, 10>>}

PayoutUpdateDealerPrice ==
    \E p \in DOMAIN products, dp \in DealerPrices : update_dealer_price(p, dp)

PayoutBilling ==
    /\ Len(sales) < MaxSales
    /\ \E p \in OfferedProducts, q \in 0..MaxQuantity, d \in PayoutDates :
          simulate_billing_api_call(p, q, d)

PayoutRecordThisSale ==
    /\ Len(sales) < SampleSaleRounds + MaxSales
    /\ \E s \in DOMAIN schemes, o \in DOMAIN offers,
          q \in 1..MaxQuantity, d \in PayoutDates :
          render_simulate_sales(s, o, q, d)

NextPayout ==
    \/ PayoutUpdateDealerPrice
    \/ PayoutBilling
    \/ PayoutRecordThisSale

SpecPayout == InitPayout /\ [][NextPayout]_vars

----------------------------------------------------------------------------
(* Billing calls of several callers at the same time, on the catalogue and the
   targets of InitPayoutSetup.  Each caller makes one call; the rows are
   inserted once every caller is inside its call, so the calls of a run
   overlap. *)

RaceResolve ==
    \E c \in Callers, p \in OfferedProducts, q \in 1..MaxQuantity, d \in PayoutDates :
        simulate_billing_api_call_resolve(c, p, q, d)

RaceInsert ==
    /\ \A c \in Callers : calls[c].at # "idle"
    /\ \E c \in Callers, raised \in BOOLEAN : record_sale_transaction_insert(c, raised)

RaceTrack ==
    \E c \in Callers, raised \in BOOLEAN : record_sale_transaction_track(c, raised)

NextRace ==
    \/ RaceResolve
    \/ RaceInsert
    \/ RaceTrack

SpecRace == InitPayoutSetup /\ [][NextRace]_vars

----------------------------------------------------------------------------
(* Claims C1 - C3: the approval gate and the sale without an offer *)

\* The scheme an offer row belongs to.
SchemeOf(o) == schemes[offers[o].scheme_id]

\* The operations that apply an offer to a sale, and the resolver itself.
SettleOps == {"simulate_billing_api_call", "render_simulate_sales"}

\* C1 (as the specification states it): whenever the resolver returns an offer,
\* or a sale is settled against an offer, the offer's scheme has approval
\* status Approved at the time of the call; no sale is settled against an
\* offer of a Pending or Rejected scheme.
C1_OnlyApprovedOffersResolve ==
    (/\ result.op \in SettleOps \cup {"get_active_deal_for_product"}
     /\ result.offer # NULL)
        => SchemeOf(result.offer[1]).approval_status = "Approved"

\* C2 (as the specification states it): an approval decision is taken only on
\* a scheme that is Pending; a decision on a scheme that is Approved or
\* Rejected leaves it unchanged, so no decision moves a scheme from Approved
\* to Rejected or from Rejected to Approved.
C2_DecideOnlyFromPending ==
    [][result'.op = "render_approvals" =>
          \A s \in DOMAIN schemes :
              /\ schemes[s].approval_status # "Pending" => schemes'[s] = schemes[s]
              /\ ~(schemes[s].approval_status = "Approved"
                     /\ schemes'[s].approval_status = "Rejected")
              /\ ~(schemes[s].approval_status = "Rejected"
                     /\ schemes'[s].approval_status = "Approved")]_vars

\* C3 (as the specification states it): a settlement for which no offer
\* qualifies does not fail; it records one sale with no offer, customer
\* discount 0, dealer incentive 0, net price after support = unit dealer price
\* * quantity, and GST on that full amount.
C3_NoOfferSaleIsRecorded ==
    (result.op = "simulate_billing_api_call" /\ result.offer = NULL
       /\ result.quantity >= 1)
        => /\ result.status = "success"
           /\ sales # <<>>
           /\ LET row == sales[Len(sales)]
                  full == row.dealer_price_dp[1] * row.quantity_sold * Hundred
              IN  /\ row.offer_id = NULL
                  /\ row.quantity_sold = result.quantity
                  /\ row.applied_customer_discount_amount
                        = Some(PerUnit(0, row.quantity_sold))
                  /\ row.earned_dealer_incentive_amount
                        = Some(PerUnit(0, row.quantity_sold))
                  /\ row.net_dp_after_support = Some(PerUnit(full, row.quantity_sold))
                  /\ row.gst_amount = Some(GstAmount(full))

----------------------------------------------------------------------------
(* Claims C4 - C6: offer resolution *)

\* Offer o qualifies for (product_id, sale_date): its product is product_id,
\* its scheme is Active and the date lies in the scheme's period, both ends
\* included, by calendar order.
Qualifies(o, product_id, sale_date) ==
    /\ offers[o].scheme_id \in DOMAIN schemes
    /\ offers[o].product_id = product_id
    /\ product_id \in DOMAIN products
    /\ SchemeOf(o).deal_status = "Active"
    /\ SchemeOf(o).scheme_period_start # NULL
    /\ SchemeOf(o).scheme_period_end # NULL
    /\ DateLE(SchemeOf(o).scheme_period_start, sale_date)
    /\ DateLE(sale_date, SchemeOf(o).scheme_period_end)

\* The state right after a call of the resolver.
Resolved == result.op = "get_active_deal_for_product"

C5_LatestUploadThenHighestId ==
    (Resolved /\ result.offer # NULL) =>
        \A o2 \in DOMAIN offers :
            (o2 # result.offer[1]
               /\ Qualifies(o2, result.product_id, result.sale_date))
            => \/ SchemeOf(result.offer[1]).upload_timestamp > SchemeOf(o2).upload_timestamp
               \/ /\ SchemeOf(result.offer[1]).upload_timestamp
                       = SchemeOf(o2).upload_timestamp
                  /\ result.offer[1] > o2

\* The returned offer beat a qualifying offer with a higher id by its scheme's
\* later upload, and a qualifying offer in the same scheme by its id.
C5_Witness ==
    /\ Resolved
    /\ result.offer # NULL
    /\ \E o2 \in DOMAIN offers :
          /\ Qualifies(o2, result.product_id, result.sale_date)
          /\ o2 > result.offer[1]
          /\ SchemeOf(o2).upload_timestamp < SchemeOf(result.offer[1]).upload_timestamp
    /\ \E o3 \in DOMAIN offers :
          /\ Qualifies(o3, result.product_id, result.sale_date)
          /\ o3 < result.offer[1]
          /\ offers[o3].scheme_id = offers[result.offer[1]].scheme_id

\* C6: two calls of the resolver with the same product and sale date and no
\* change of the catalogue between them return the same offer, or both none.
C6_ResolutionIsDeterministic ==
    [][(/\ Resolved
        /\ result'.op = "get_active_deal_for_product"
        /\ result'.product_id = result.product_id
        /\ result'.sale_date = result.sale_date
        /\ UNCHANGED <<products, schemes, offers>>)
          => result'.offer = result.offer]_vars

\* A call returned an offer while another qualifying offer had the same upload
\* time: the state in which a second call with the same inputs can be made
\* and only the offer id decides.
C6_Witness ==
    /\ Resolved
    /\ result.offer # NULL
    /\ \E o2 \in DOMAIN offers :
          /\ o2 # result.offer[1]
          /\ Qualifies(o2, result.product_id, result.sale_date)
          /\ SchemeOf(o2).upload_timestamp = SchemeOf(result.offer[1]).upload_timestamp
          /\ offers[o2].scheme_id # offers[result.offer[1]].scheme_id
    /\ ENABLED ResolveOffer(result.product_id, result.sale_date)

----------------------------------------------------------------------------
(* Claims C7 - C10: the payout of a settled sale *)

\* The state right after a sale was settled against an offer.
Settled == result.op \in SettleOps /\ result.status = "success"

\* The offer row the settled sale applied.
AppliedOffer == offers[result.offer[1]]

\* C7 (as the specification states it): for an offer with payout_type Fixed
\* and a quantity of at least 1, the computed amount is payout_value *
\* quantity.
C7_FixedPaysValueTimesQuantity ==
    (Settled /\ result.quantity >= 1 /\ AppliedOffer.payout_type = "Fixed")
        => result.discount_amount + result.incentive_earned
              = AppliedOffer.payout_value * result.quantity * Hundred

\* C8 (as the specification states it): for an offer with payout_type
\* Percentage, a positive quantity and a positive unit dealer price, dealer
\* incentive + customer discount = unit dealer price * quantity * payout_value
\* / 100, and exactly one of the two is non-zero.
C8_PercentageExactlyOneLeg ==
    (Settled /\ result.quantity >= 1 /\ result.base_dp > 0
       /\ AppliedOffer.payout_type = "Percentage")
        => /\ result.discount_amount + result.incentive_earned
                 = result.base_dp * result.quantity * AppliedOffer.payout_value
           /\ (result.discount_amount # 0) # (result.incentive_earned # 0)

\* C8 (amended): for an offer with payout_type Percentage, a positive quantity
\* and a positive unit dealer price, dealer incentive + customer discount =
\* unit dealer price * quantity * payout_value / 100; at most one of the two is
\* non-zero, and exactly one when payout_value is not 0.
C8_PercentageAtMostOneLeg ==
    (Settled /\ result.quantity >= 1 /\ result.base_dp > 0
       /\ AppliedOffer.payout_type = "Percentage")
        => /\ result.discount_amount + result.incentive_earned
                 = result.base_dp * result.quantity * AppliedOffer.payout_value
           /\ ~(result.discount_amount # 0 /\ result.incentive_earned # 0)
           /\ AppliedOffer.payout_value # 0
                 => (result.discount_amount # 0) # (result.incentive_earned # 0)

\* Scenario B of the specification settled by the billing call: 10 percent of
\* 2 units at 25000 is a customer discount of 5000 and no dealer incentive.
C8_Witness ==
    /\ Settled
    /\ result.op = "simulate_billing_api_call"
    /\ AppliedOffer.payout_type = "Percentage"
    /\ AppliedOffer.payout_value = 10
    /\ result.quantity = 2
    /\ result.base_dp = 25000
    /\ result.discount_amount = 5000 * Hundred
    /\ result.incentive_earned = 0

\* C9 (as the specification states it): in every settlement path the computed
\* amount is classified by is_dealer_incentive: when true the whole amount is
\* dealer incentive and the customer discount is 0, when false the whole
\* amount is customer discount and the dealer incentive is 0.
C9_ClassifiedByIsDealerIncentive ==
    Settled =>
        IF AppliedOffer.is_dealer_incentive
        THEN result.discount_amount = 0
        ELSE result.incentive_earned = 0

\* C10: every sale the billing call records has net price after support =
\* unit dealer price * quantity - customer discount and GST = 18 percent of
\* that net price; the dealer incentive enters neither.
C10_NetAndGst ==
    \A i \in DOMAIN sales :
        sales[i].net_dp_after_support # NULL =>
            LET gross == sales[i].dealer_price_dp[1] * sales[i].quantity_sold * Hundred
                net == sales[i].net_dp_after_support[1].total
            IN  /\ net = gross - sales[i].applied_customer_discount_amount[1].total
                /\ sales[i].gst_amount = Some(net * GstPercent)

\* A recorded sale that earned a dealer incentive and whose net price is still
\* the full unit dealer price * quantity, with GST on it.
C10_Witness ==
    \E i \in DOMAIN sales :
        /\ sales[i].net_dp_after_support # NULL
        /\ sales[i].quantity_sold = 2
        /\ sales[i].earned_dealer_incentive_amount[1].total > 0
        /\ sales[i].net_dp_after_support[1].total
              = sales[i].dealer_price_dp[1] * 2 * Hundred
        /\ sales[i].gst_amount
              = Some(sales[i].dealer_price_dp[1] * 2 * Hundred * GstPercent)

----------------------------------------------------------------------------
(* Claims C11 - C13: slab-based and bundle offers *)

\* C13 (as the specification states it): the payout model of an offer is
\* chosen in the order slab-based, bundle, Percentage, Fixed, the first
\* applicable one winning: the amount of an offer flagged is_slab_based or
\* is_bundle_offer is never computed by the Percentage or the Fixed formula,
\* whatever its payout_type.
C13_FlaggedOfferSkipsTypeFormula ==
    (Settled /\ (AppliedOffer.is_slab_based \/ AppliedOffer.is_bundle_offer))
        => result.formula \notin {"Percentage", "Fixed", "Fixed Amount"}

----------------------------------------------------------------------------
(* Claims C14 - C15: dealer targets *)

\* Sales row i counts towards target t: same deal, and the target names the
\* row's product or a product group.
CountsTowards(t, i) ==
    /\ sales[i].scheme_id = Some(targets[t].deal_id)
    /\ \/ targets[t].target_product_id = Some(sales[i].product_id)
       \/ targets[t].target_product_group_description # NullText

\* What row i adds to target t: its quantity for the metric Units Sold, its
\* net sale value (in hundredths) for the metric Sales Value.
Contribution(t, i) ==
    IF ~CountsTowards(t, i) THEN 0
    ELSE IF targets[t].target_metric = "Units Sold" THEN sales[i].quantity_sold
    ELSE IF sales[i].net_dp_after_support = NULL THEN 0
    ELSE sales[i].net_dp_after_support[1].total

\* The cumulative amount of the first n recorded sales towards target t.
RECURSIVE Achieved(_, _)
Achieved(t, n) == IF n = 0 THEN 0 ELSE Achieved(t, n - 1) + Contribution(t, n)

\* The amount target t asks for, in the unit of its metric.
TargetAmount(t) ==
    IF targets[t].target_metric = "Units Sold" THEN targets[t].target_quantity
    ELSE targets[t].target_value[1] * Hundred

\* C14 (as the specification states it): every recorded sale adds its quantity
\* (metric Units Sold) or its net sale value (metric Sales Value) to the
\* cumulative achieved amount of each matching target, and once that amount
\* is at least the target quantity (or value) the target's is_achieved is
\* true.
C14_TargetAchievedOnceReached ==
    \A t \in DOMAIN targets :
        Achieved(t, Len(sales)) >= TargetAmount(t) => targets[t].is_achieved

\* C15: once a target's is_achieved is true, no step of the system sets it
\* back to false or removes the target.
C15_AchievedIsMonotonic ==
    [][\A t \in DOMAIN targets :
          targets[t].is_achieved
             => (t \in DOMAIN targets' /\ targets'[t].is_achieved)]_vars

\* A sale was recorded for the deal and the product of a target that is
\* achieved, and for fewer units than the target asks for.
C15_Witness ==
    /\ result.op = "simulate_billing_api_call"
    /\ result.status = "success"
    /\ \E t \in DOMAIN targets :
          /\ targets[t].is_achieved
          /\ targets[t].target_metric = "Units Sold"
          /\ CountsTowards(t, Len(sales))
          /\ sales[Len(sales)].quantity_sold < targets[t].target_quantity

----------------------------------------------------------------------------
(* Claims C16 - C18: what a billing call returns and what it leaves behind *)

\* The step is a call of simulate_billing_api_call that has returned.
BillingReturned == result'.op = "simulate_billing_api_call"

\* C16 (as the specification states it): a billing call returns either the
\* persisted transaction or an error, never both: when it returns an error no
\* sales row written by the call is visible, and when a row was committed the
\* call returns that row's transaction.
C16_TransactionOrErrorNeverBoth ==
    [][BillingReturned =>
          /\ result'.status = "error" => sales' = sales
          /\ sales' # sales => /\ result'.status = "success"
                               /\ Len(sales') = Len(sales) + 1
                               /\ result'.transaction_id = Len(sales')]_vars

\* update_dealer_targets raised in the call that has returned.
TrackerFailed ==
    /\ BillingReturned
    /\ result'.status = "error"
    /\ result'.offer # NULL
    /\ result'.raised = "update_dealer_targets"

\* C17: the sales row is committed before update_dealer_targets runs, and a
\* failure of update_dealer_targets does not undo it: a call in which the
\* tracker ran, to the end or to an error, has added its row to the rows
\* committed before, and every step keeps the rows committed so far.
C17_CommitPrecedesTracker ==
    [][/\ (TrackerFailed \/ (BillingReturned /\ result'.status = "success"))
            => /\ Len(sales') = Len(sales) + 1
               /\ sales'[Len(sales')].quantity_sold = result'.quantity
               /\ sales'[Len(sales')].offer_id = result'.offer
       /\ Len(sales') >= Len(sales)
       /\ SubSeq(sales', 1, Len(sales)) = sales]_vars

\* A call whose tracker failed has returned an error and its row is recorded.
C17_Witness ==
    /\ result.op = "simulate_billing_api_call"
    /\ result.status = "error"
    /\ result.offer # NULL
    /\ result.raised = "update_dealer_targets"
    /\ result.quantity >= 1
    /\ sales # <<>>
    /\ sales[Len(sales)].offer_id = result.offer
    /\ sales[Len(sales)].quantity_sold = result.quantity

\* The unit dealer price of the product a billing call sold, NULL when the
\* product has none or the call found no offer.
StoredUnitPrice ==
    IF result'.offer = NULL THEN NULL
    ELSE products[offers[result'.offer[1]].product_id].dealer_price_dp

\* C18 (as the specification states it): a billing call with a quantity that
\* is not positive, or for a product whose unit dealer price is not positive,
\* is rejected before anything is stored: it returns an error, writes no sales
\* row and changes no dealer target.
C18_NonPositiveInputRejected ==
    [][(/\ BillingReturned
        /\ \/ result'.quantity <= 0
           \/ (StoredUnitPrice # NULL /\ StoredUnitPrice[1] <= 0))
          => /\ result'.status = "error"
             /\ sales' = sales
             /\ targets' = targets]_vars

----------------------------------------------------------------------------
(* Claim C19: recorded sales are kept *)

\* C19 (as the specification states it): a successful settlement creates
\* exactly one sales row, and a recorded row is never changed and never
\* removed by any operation, so the recorded sales only grow.
C19_RecordedSalesOnlyGrow ==
    [][/\ Len(sales') >= Len(sales)
       /\ SubSeq(sales', 1, Len(sales)) = sales
       /\ (result'.op \in SettleOps /\ result'.status = "success"
             /\ <<sales', result'>> # <<sales, result>>)
            => Len(sales') = Len(sales) + 1]_vars

----------------------------------------------------------------------------
(* Claim C20: concurrent billing calls against one target *)

\* Both calls have returned and each has committed its row.
BothSettled ==
    /\ \A c \in Callers : calls[c].at = "returned"
    /\ Len(sales) = Cardinality(Callers)

\* C20 (as the specification states it): when two billing calls against the
\* same dealer target run at the same time, no target update is lost: after
\* both have completed, the target's cumulative achieved amount holds the
\* contributions of both sales, so a target that the two sales together reach
\* is achieved.
C20_NoLostTargetUpdate ==
    BothSettled =>
        \A t \in DOMAIN targets :
            (CountsTowards(t, 1) /\ CountsTowards(t, 2)
               /\ Contribution(t, 1) + Contribution(t, 2) >= TargetAmount(t))
                => targets[t].is_achieved

----------------------------------------------------------------------------
(* Claims C21 - C22, C25 - C26: the approval workflow *)

\* C21 (as the specification states it): every newly created scheme starts
\* with approval_status Pending; no creation path yields a scheme that is
\* Approved without a subsequent approval decision.
C21_CreatedSchemesArePending ==
    [][Len(schemes') > Len(schemes) =>
          \A s \in DOMAIN schemes' :
              s \notin DOMAIN schemes => schemes'[s].approval_status = "Pending"]_vars

\* C22 (as the specification states it): every approval decision appends a new
\* audit row, and the existing audit rows are never modified or removed: each
\* step keeps the rows written so far, and a decision adds one row to them.
C22_ApprovalsAreAppendOnly ==
    [][/\ Len(approvals') >= Len(approvals)
       /\ SubSeq(approvals', 1, Len(approvals)) = approvals
       /\ (result'.op = "render_approvals" /\ result' # result)
             => Len(approvals') = Len(approvals) + 1]_vars

----------------------------------------------------------------------------
(* Claim C23: the per-unit columns of a recorded sale *)

\* The stored value v is the total divided by quantity.
IsPerUnitOf(v, total, quantity) == v.per > 0 /\ v.total * quantity = total * v.per

\* C23 (as the specification states it): every money field stored on a sales
\* row (net price after support, customer discount, dealer incentive) is the
\* per-unit value computed total / quantity, in every path that writes a row,
\* and the division is never evaluated with quantity 0.
C23_StoredMoneyIsPerUnit ==
    /\ \A i \in DOMAIN sales :
          /\ sales[i].net_dp_after_support # NULL
                => sales[i].net_dp_after_support[1].per > 0
          /\ sales[i].applied_customer_discount_amount # NULL
                => sales[i].applied_customer_discount_amount[1].per > 0
          /\ sales[i].earned_dealer_incentive_amount # NULL
                => sales[i].earned_dealer_incentive_amount[1].per > 0
    /\ (Settled /\ result.quantity >= 1) =>
          LET row == sales[Len(sales)]
          IN  /\ row.earned_dealer_incentive_amount # NULL
                    => IsPerUnitOf(row.earned_dealer_incentive_amount[1],
                                   result.incentive_earned, result.quantity)
              /\ row.applied_customer_discount_amount # NULL
                    => IsPerUnitOf(row.applied_customer_discount_amount[1],
                                   result.discount_amount, result.quantity)
              /\ row.net_dp_after_support # NULL
                    => IsPerUnitOf(row.net_dp_after_support[1],
                                   result.base_dp * result.quantity * Hundred
                                      - result.discount_amount,
                                   result.quantity)

----------------------------------------------------------------------------
(* Claim C24: the targets a sale leaves alone *)

\* The step is a billing call that resolved an offer and so reached
\* record_sale_transaction.
SaleApplied == BillingReturned /\ result'.offer # NULL

\* Target t is outside the sale of offer row o: it belongs to another deal,
\* names a different product, or is achieved already.
OutsideSale(t, o) ==
    \/ targets[t].deal_id # offers[o].scheme_id
    \/ /\ targets[t].target_product_id # NULL
       /\ targets[t].target_product_id # Some(offers[o].product_id)
    \/ targets[t].is_achieved

----------------------------------------------------------------------------
(* Claims C25 - C26: Pending requests and Pending schemes *)

\* C25 (as the specification states it): whenever an approval request of a
\* scheme is still Pending, the scheme's approval_status is Pending; no scheme
\* is Approved or Rejected while an undecided request for it remains.
C25_PendingRequestMeansPendingScheme ==
    \A a \in DOMAIN approvals :
        (approvals[a].approval_status = "Pending"
           /\ approvals[a].scheme_id \in DOMAIN schemes)
            => schemes[approvals[a].scheme_id].approval_status = "Pending"

\* C26 (as the specification states it): every scheme whose approval_status
\* is Pending has at least one Pending approval request, so it is listed on
\* the approvals page and can be approved or rejected.
C26_PendingSchemeHasPendingRequest ==
    \A s \in DOMAIN schemes :
        schemes[s].approval_status = "Pending"
            => \E a \in PendingApprovals : approvals[a].scheme_id = s

----------------------------------------------------------------------------
(* Claim C27: the sign of the net price and of the GST *)

\* C27 (as the specification states it): the net price after support and the
\* GST amount of every settled sale are non-negative; the customer discount
\* of an offer never exceeds unit dealer price * quantity, whatever
\* payout_value the offer carries.
C27_NetAndGstNonNegative ==
    \A i \in DOMAIN sales :
        /\ sales[i].net_dp_after_support # NULL
              => sales[i].net_dp_after_support[1].total >= 0
        /\ sales[i].gst_amount # NULL => sales[i].gst_amount[1] >= 0
        /\ sales[i].applied_customer_discount_amount # NULL
              => sales[i].applied_customer_discount_amount[1].total
                    <= sales[i].dealer_price_dp[1] * sales[i].quantity_sold * Hundred

----------------------------------------------------------------------------
(* Claim C28: add_product called again *)

\* The product rows that hold the code and the name of the call that returns
\* in this step.
SameProduct(prods) ==
    {p \in DOMAIN prods :
        /\ prods[p].product_code = result'.product_code
        /\ prods[p].product_name = result'.product_name}

\* C28 (as the specification states it): add_product is idempotent: a call
\* with a product_code and product_name that an earlier call was made with,
\* a NULL product_code included, inserts nothing, returns the id of the row
\* the first such call created, and leaves exactly one row for the product.
C28_AddProductIsIdempotent ==
    [][(result'.op = "add_product" /\ SameProduct(products) # {})
          => /\ products' = products
             /\ result'.id = Some(Min(SameProduct(products)))
             /\ Cardinality(SameProduct(products')) = 1]_vars

----------------------------------------------------------------------------
(* Claim C29: references between the rows *)

\* The sales rows that are there.
SaleIds == {i \in DOMAIN sales : sales[i] # DeletedSale}

----------------------------------------------------------------------------
(* Claim C30: a save that fails *)

\* The step is a save that failed.
SaveFailed == result'.op = "render_upload_scheme" /\ result'.status = "error"

\* C30: saving an extracted scheme is all-or-nothing: when the insert of the
\* scheme, of one of its products, of one of its offers or of one of its
\* rules fails, the save is rolled back and the tables hold no scheme row,
\* product row, offer row or rule row written by it.
C30_FailedSaveWritesNothing ==
    [][SaveFailed => UNCHANGED <<schemes, products, offers, rules>>]_vars

\* A save failed at the INSERT of its second product, on the product code
\* that its first product had just been inserted with: the scheme row, the
\* first product and its offer row had been written, and there is no such
\* product in the table.
C30_Witness ==
    /\ result.op = "render_upload_scheme"
    /\ result.status = "error"
    /\ result.failed_at = "products"
    /\ Len(result.product_list) = 2
    /\ \A p \in DOMAIN products :
          /\ products[p].product_name # result.product_list[1].product_name
          /\ products[p].product_code # result.product_list[1].product_code

====
